---- MODULE Spec2Model ----
(***************************************************************************)
(* Model of the article acquisition and verification pipeline of           *)
(* web_researcher.py: main, process_url and the functions they call.       *)
(* The browser, the web, the language model and the record store are the   *)
(* environment: every call to them picks one of its possible outcomes.     *)
(***************************************************************************)
EXTENDS Integers, Sequences, FiniteSets, TLC

\* ------------------------------------------------------------------ bounds
NumUrls == 2
MaxCandidates == 3
MaxRuns == 2
MaxDbFaults == 1
MaxEvidence == 1
\* Each behaviour explores one dimension of the environment at full width
\* (its scope) and the others narrowly:
\*   "batch":    a list of up to MaxCandidates candidates naming up to NumUrls
\*               URLs, some URLs stored already;
\*   "entities": one URL, for which the model names up to MaxNames people
\*               (suspects and victims together);
\*   "retries":  one URL, every chat call of which may fail transiently up to
\*               the retry cap of get_validated_response.
\* Outside their scope the model names at most MaxNamesElsewhere people per URL
\* and a chat call fails transiently at most MaxTransientElsewhere times.
MaxNames == 2
MaxNamesElsewhere == 0
MaxTransientElsewhere == 1
Scopes == {"batch", "entities", "retries"}

\* --------------------------------------------------------- program constants
MIN_TEXT_LENGTH == 100
FetchMaxRetries == 3
FetchRetryDelay == 5
GvMaxRetries == 5
GvBaseDelay == 5

URLS == 1..NumUrls

\* Lengths of the text a tier can come up with, around the threshold.
RawLens == {0, MIN_TEXT_LENGTH - 1, MIN_TEXT_LENGTH}

BoundedSeq(S, n) == UNION {[1..k -> S] : k \in 0..n}

\* What the language model can put in a reply.
Answers == {"yes", "Yes", "no", "maybe"}
IncidentTexts == {"raid on warehouse"}
Names == {"John Doe", "Acme Ltd"}

\* str.lower() on the answers above.
Lower(a) == IF a = "Yes" THEN "yes" ELSE a

\* The "evidence" member of a reply: null, or a list.
EvidenceValues(S, n) ==
    {[isNull |-> TRUE, items |-> <<>>]}
        \cup {[isNull |-> FALSE, items |-> e] : e \in BoundedSeq(S, n)}

\* `evidence or []`
OrEmpty(e) == IF e.isNull THEN <<>> ELSE e.items

\* The detail-form reply: a field holds a value, holds null, or is absent.
FormReplies == {[age |-> a] : a \in {"34", "null", "absent"}}
NoForm == [name |-> "", age |-> "NULL"]
NoJson == [age |-> "none"]

\* The value of get_validated_response: None, or the validated reply.
NoResponse == [none |-> TRUE, answer |-> "", evidence |-> [isNull |-> TRUE, items |-> <<>>]]

Replies(key, cap) ==
    {[none |-> FALSE, answer |-> a, evidence |-> e] :
        a \in Answers,
        e \in IF key = "incident_prompt"
              THEN EvidenceValues(IncidentTexts, MaxEvidence)
              ELSE EvidenceValues(Names, cap)}

VARIABLES
    scope,        \* the dimension this behaviour explores at full width
    candidates,   \* main: urls_from_files, a list that may name a URL twice
    run,          \* which run of main this is
    pc,           \* position of the (single) thread of control
    todo,         \* main: URLs of the for loop not yet visited
    driver,       \* main: the shared browser session: "none", "open", "quit"
    startUrls,    \* main: urls_from_db, the store's URLs when the run started
    invoked,      \* per URL, the process_url invocations of this run
    finished,     \* the runs of main that went through the whole loop (line 660)
    urlRows,      \* store: per URL, the UrlRecord rows
    dbFaults,     \* store calls that raised so far
    cur,          \* process_url: url (0 outside process_url)
    probeRet,     \* what is_url_accessible returned: "True", "False", "" before
    probeLog,     \* process_url: the outcome of each is_url_accessible call
    shortLived,   \* short-lived browser sessions of this run opened and not quit
    did,          \* kinds of external call made by the current process_url
    writeLog,     \* store calls issued by the current process_url, in order
    text,         \* process_url: text (its length; 0 is the empty string)
    fetchLog,     \* fetch_url_with_retries: outcome of each driver.get
    fetchRet,     \* fetch_url_with_retries: its return value, "" before it returns
    slept,        \* fetch_url_with_retries: the time.sleep delays
    tierLog,      \* extract_main_text: <<tier, raw length>> of each tier called
    tables,       \* store: the rows of the incident, suspect, victim and form tables
    result,       \* process_url: result
    incidents,    \* process_url: incidents
    idx,          \* index of the running for loop (incidents, suspects, victims)
    verdict,      \* verify_incident: the answer it got ("none" without a reply)
    gvKey,        \* get_validated_response: prompt_key
    gvAttempt,    \* get_validated_response: attempt
    gvLog,        \* get_validated_response: outcome of each chat call
    gvDelays,     \* get_validated_response: the delays slept, before jitter
    gvResp,       \* get_validated_response: its return value
    role,         \* "suspect" in upload_suspects, "victim" in upload_victims
    names,        \* upload_suspects: suspects / upload_victims: victims
    passed,       \* <<role, index>> of the candidates confirm_natural_name accepted
    paces,        \* pacing sleeps of the running upload_suspects / upload_victims
    formData,     \* populate_*_forms_table: response_data
    formJson,     \* populate_*_forms_table: response_json
    named         \* people the model named so far for the current URL

batchVars == <<scope, candidates, run, todo, driver, startUrls, invoked, finished>>
storeVars == <<urlRows, tables, dbFaults>>
puVars    == <<cur, probeRet, probeLog, did, writeLog, text, result, incidents, idx, verdict>>
fetchVars == <<fetchLog, fetchRet, slept>>
tierVars  == <<tierLog>>
browserVars == <<shortLived>>
gvVars    == <<gvKey, gvAttempt, gvLog, gvDelays, gvResp>>
nameVars  == <<role, names, passed, paces, formData, formJson, named>>

vars == <<pc, batchVars, storeVars, puVars, fetchVars, tierVars, browserVars,
          gvVars, nameVars>>

\* ------------------------------------------------------------------- store
\* The record store (work_with_db.URLDatabase) is not part of the sources;
\* it is modelled from the persistence contract.

NegativeRecord == [content |-> 0, actual_incident |-> -1, accessible |-> 0]

StoredUrls == {u \in URLS : Len(urlRows[u]) > 0}

\* Any store call may fail; insert_url of a duplicate key fails loudly.
CanFail == dbFaults < MaxDbFaults

InsertUrlOk(u, rec) ==
    /\ Len(urlRows[u]) = 0
    /\ urlRows' = [urlRows EXCEPT ![u] = Append(@, rec)]
    /\ writeLog' = Append(writeLog, "insert_url")
    /\ UNCHANGED <<tables, dbFaults>>

InsertUrlRaises(u) ==
    /\ CanFail \/ Len(urlRows[u]) > 0
    /\ writeLog' = Append(writeLog, "insert_url")
    /\ dbFaults' = dbFaults + 1
    /\ UNCHANGED <<urlRows, tables>>

\* update_field sets the field of the URL's row; it adds no row.
UpdateFieldOk(u, value) ==
    /\ urlRows' = [urlRows EXCEPT ![u] =
                      [i \in DOMAIN @ |-> [@[i] EXCEPT !.actual_incident = value]]]
    /\ writeLog' = Append(writeLog, "update_field")
    /\ UNCHANGED <<tables, dbFaults>>

\* insert_incident, insert_suspect, insert_victim, insert_suspect_form and
\* insert_victim_form add a row under a generated row id (its index).
InsertRowOk(table, row) ==
    /\ tables' = [tables EXCEPT ![table] = Append(@, row)]
    /\ writeLog' = Append(writeLog, "insert_" \o table)
    /\ UNCHANGED <<urlRows, dbFaults>>

\* A store call that raises DatabaseError and writes nothing.
StoreCallRaises(call) ==
    /\ CanFail
    /\ writeLog' = Append(writeLog, call)
    /\ dbFaults' = dbFaults + 1
    /\ UNCHANGED <<urlRows, tables>>

\* get_url_id: the key of the URL's row, 0 (None) without one.
GetUrlId(u) == IF Len(urlRows[u]) > 0 THEN u ELSE 0

\* get_suspect_id / get_victim_id: the id of the first row of the URL with
\* that name, 0 (None) without one.
GetPersonId(table, urlId, name) ==
    LET hits == {i \in DOMAIN tables[table] :
                    tables[table][i].url = urlId /\ tables[table][i].name = name}
    IN IF hits = {} THEN 0 ELSE CHOOSE i \in hits : \A j \in hits : i <= j

EmptyTables ==
    [t \in {"incident", "suspect", "victim", "suspect_form", "victim_form"} |-> <<>>]

\* -------------------------------------------------------------------- main
\* State of one process_url call before its first statement.
FreshLocals ==
    /\ probeRet' = ""
    /\ probeLog' = <<>>
    /\ did' = {}
    /\ writeLog' = <<>>
    /\ text' = 0
    /\ fetchLog' = <<>>
    /\ fetchRet' = ""
    /\ slept' = <<>>
    /\ tierLog' = <<>>
    /\ result' = NegativeRecord
    /\ incidents' = <<>>
    /\ idx' = 0
    /\ verdict' = ""
    /\ gvKey' = ""
    /\ gvAttempt' = 0
    /\ gvLog' = <<>>
    /\ gvDelays' = <<>>
    /\ gvResp' = NoResponse
    /\ role' = ""
    /\ names' = <<>>
    /\ passed' = {}
    /\ paces' = 0
    /\ formData' = NoForm
    /\ formJson' = NoJson
    /\ named' = 0

NameCap == IF scope = "entities" THEN MaxNames ELSE MaxNamesElsewhere
TransientCap == IF scope = "retries" THEN GvMaxRetries ELSE MaxTransientElsewhere

Init ==
    /\ scope \in Scopes
    /\ candidates \in BoundedSeq(URLS, MaxCandidates) \ {<<>>}
    /\ scope # "batch" => candidates = <<1>>
    /\ run = 1
    /\ pc = "main"
    /\ todo = {}
    /\ driver = "none"
    /\ startUrls = {}
    /\ invoked = [u \in URLS |-> 0]
    /\ finished = {}
    /\ \E pre \in SUBSET URLS :
          /\ scope # "batch" => pre = {}
          /\ urlRows = [u \in URLS |-> IF u \in pre THEN <<NegativeRecord>> ELSE <<>>]
    /\ dbFaults = 0
    /\ cur = 0
    /\ probeRet = ""
    /\ probeLog = <<>>
    /\ shortLived = 0
    /\ did = {}
    /\ writeLog = <<>>
    /\ text = 0
    /\ fetchLog = <<>>
    /\ fetchRet = ""
    /\ slept = <<>>
    /\ tierLog = <<>>
    /\ tables = EmptyTables
    /\ result = NegativeRecord
    /\ incidents = <<>>
    /\ idx = 0
    /\ verdict = ""
    /\ gvKey = ""
    /\ gvAttempt = 0
    /\ gvLog = <<>>
    /\ gvDelays = <<>>
    /\ gvResp = NoResponse
    /\ role = ""
    /\ names = <<>>
    /\ passed = {}
    /\ paces = 0
    /\ formData = NoForm
    /\ formJson = NoJson
    /\ named = 0

\* set(a_list)
ToSet(list) == {list[i] : i \in DOMAIN list}

\* Mutant: the candidates are not checked against the store.
NewUrlsNoDedup(fromFiles, fromDb) == ToSet(fromFiles)

\* main, line 649: the URLs to process are the candidates not in the store,
\* each of them once.
NewUrls(fromFiles, fromDb) == ToSet(fromFiles) \ fromDb

MainStart ==
    /\ pc = "main"
    /\ startUrls' = StoredUrls
    /\ todo' = NewUrls(candidates, StoredUrls)
    /\ pc' = "init_selenium"
    /\ UNCHANGED <<scope, candidates, run, driver, invoked, finished>>
    /\ UNCHANGED <<storeVars, puVars, fetchVars, tierVars, browserVars, gvVars, nameVars>>

\* Mutant: main enters the loop whatever initialize_selenium returned.
AfterInitializeIgnored(d) == "loop"

\* main, lines 652-654: without a driver main logs the failure and returns.
AfterInitialize(d) == IF d = "none" THEN "main_done" ELSE "loop"

\* initialize_selenium returns a driver or, on any exception, None.
InitializeSelenium ==
    /\ pc = "init_selenium"
    /\ driver' \in {"open", "none"}
    /\ pc' = AfterInitialize(driver')
    /\ UNCHANGED <<scope, candidates, run, todo, startUrls, invoked, finished>>
    /\ UNCHANGED <<storeVars, puVars, fetchVars, tierVars, browserVars, gvVars, nameVars>>

\* for url in urls: process_url(url, db, driver)
MainLoopNext ==
    /\ pc \in {"loop", "pu_return"}
    /\ todo # {}
    /\ \E u \in todo :
          /\ todo' = todo \ {u}
          /\ cur' = u
          /\ invoked' = [invoked EXCEPT ![u] = @ + 1]
    /\ pc' = "probe"
    /\ FreshLocals
    /\ UNCHANGED <<scope, candidates, run, driver, startUrls, finished>>
    /\ UNCHANGED <<storeVars, browserVars>>

\* driver.quit() after the loop.
MainQuit ==
    /\ pc \in {"loop", "pu_return"}
    /\ todo = {}
    /\ driver' = "quit"
    /\ finished' = finished \cup {run}
    /\ pc' = "main_done"
    /\ UNCHANGED <<scope, candidates, run, todo, startUrls, invoked>>
    /\ UNCHANGED <<storeVars, puVars, fetchVars, tierVars, browserVars, gvVars, nameVars>>

\* The batch job is started again over the same candidates and store.
RunAgain ==
    /\ pc \in {"main_done", "crashed"}
    /\ run < MaxRuns
    /\ run' = run + 1
    /\ pc' = "main"
    /\ todo' = {}
    /\ driver' = "none"
    /\ invoked' = [u \in URLS |-> 0]
    /\ cur' = 0
    /\ shortLived' = 0
    /\ FreshLocals
    /\ UNCHANGED <<scope, candidates, startUrls, finished>>
    /\ UNCHANGED storeVars

\* ------------------------------------------------------------- process_url
\* The three early returns of process_url persist the same negative record;
\* an exception of insert_url there is caught by nobody.
PersistNegative ==
    /\ pc = "persist_negative"
    /\ \/ InsertUrlOk(cur, NegativeRecord) /\ pc' = "pu_return"
       \/ InsertUrlRaises(cur) /\ pc' = "crashed"
    /\ UNCHANGED <<cur, probeRet, probeLog, did, text, result, incidents, idx, verdict>>
    /\ UNCHANGED <<batchVars, fetchVars, tierVars, browserVars, gvVars, nameVars>>

\* is_url_accessible: True iff the page got a non-empty title; any exception
\* is False.
IsUrlAccessible(outcome) == outcome = "title"

\* is_url_accessible, lines 271-277: what a call may meet. The session is
\* opened (271), the page loaded (272), its title read (273) and the session
\* quit (274); an exception of any of these is caught (276).
\*   "title", "no_title": all four calls returned;
\*   "no_session": webdriver.Chrome raised, no session was opened;
\*   "raised": driver.get or driver.title raised on the opened session.
ProbeOutcomes == {"title", "no_title", "no_session", "raised"}

\* is_url_accessible: the sessions the call leaves open. driver.quit() is on
\* line 274 only, which an exception of lines 272-273 skips.
ProbeLeaves(outcome) == IF outcome = "raised" THEN 1 ELSE 0

\* Python's str() of a bool.
Str(b) == IF b THEN "True" ELSE "False"

\* Mutant: a URL found not accessible is probed again.
AfterProbeRepeated(accessible) == IF accessible THEN "fetch" ELSE "probe"

\* Mutant: the result of the probe is ignored.
AfterProbeIgnored(accessible) == "fetch"

\* process_url, lines 559-572: a URL that is not accessible is recorded as
\* such and process_url returns.
AfterProbe(accessible) == IF accessible THEN "fetch" ELSE "persist_negative"

Probe ==
    /\ pc = "probe"
    /\ did' = did \cup {"probe"}
    /\ \E outcome \in ProbeOutcomes :
          /\ probeLog' = Append(probeLog, outcome)
          /\ shortLived' = shortLived + ProbeLeaves(outcome)
          /\ probeRet' = Str(IsUrlAccessible(outcome))
          /\ pc' = AfterProbe(IsUrlAccessible(outcome))
    /\ UNCHANGED <<cur, writeLog, text, result, incidents, idx, verdict>>
    /\ UNCHANGED <<batchVars, storeVars, fetchVars, tierVars, gvVars, nameVars>>

\* Mutant: a fatal driver fault is retried like a timeout.
FetchRetriesAnyFailure(outcome, attempt) ==
    outcome # "loaded" /\ attempt < FetchMaxRetries

\* fetch_url_with_retries: one pass of the for loop per step.
\* A timeout falls through to the sleep and the next attempt; any other
\* WebDriverException breaks out of the loop.
FetchRetries(outcome, attempt) ==
    outcome = "timeout" /\ attempt < FetchMaxRetries

\* What driver.get does: it returns ("loaded"), raises TimeoutException
\* ("timeout"), raises another WebDriverException ("fatal"), or raises an
\* exception that is no WebDriverException ("error": the HTTP client of the
\* driver connection raising urllib3's ReadTimeoutError or MaxRetryError).
FetchOutcomes == {"loaded", "timeout", "fatal", "error"}

\* The except clauses of lines 288 and 290 let any other exception through:
\* it leaves fetch_url_with_retries, process_url (line 575 is outside its try)
\* and the loop of main (lines 656-657 have no try).
FetchPropagates(outcome) == outcome \notin {"loaded", "timeout", "fatal"}

FetchAttempt ==
    /\ pc = "fetch"
    /\ did' = did \cup {"load"}
    /\ \E outcome \in FetchOutcomes :
          LET attempt == Len(fetchLog) + 1 IN
          /\ fetchLog' = Append(fetchLog, outcome)
          /\ fetchRet' = IF FetchRetries(outcome, attempt) \/ FetchPropagates(outcome)
                         THEN "" ELSE Str(outcome = "loaded")
          /\ slept' = IF outcome = "timeout"
                      THEN Append(slept, FetchRetryDelay) ELSE slept
          /\ pc' = IF FetchPropagates(outcome) THEN "crashed"
                   ELSE IF FetchRetries(outcome, attempt) THEN "fetch" ELSE "fetch_return"
    /\ UNCHANGED <<cur, probeRet, probeLog, writeLog, text, result, incidents, idx, verdict>>
    /\ UNCHANGED <<batchVars, storeVars, tierVars, browserVars, gvVars, nameVars>>

\* Mutant: the result of the load is ignored.
AfterFetchIgnored(loaded) == "tier1"

\* process_url, lines 575-587: a URL that did not load is recorded as not
\* accessible and process_url returns.
AfterFetch(loaded) == IF loaded THEN "tier1" ELSE "persist_negative"

FetchReturn ==
    /\ pc = "fetch_return"
    /\ pc' = AfterFetch(fetchRet = "True")
    /\ fetchLog' = <<>>
    /\ slept' = <<>>
    /\ UNCHANGED fetchRet
    /\ UNCHANGED <<batchVars, storeVars, puVars, tierVars, browserVars, gvVars, nameVars>>

\* Mutant: a tier returns whatever text it found, however short.
TierOutputAnyLength(raw) == IF raw > 0 THEN raw ELSE 0

\* extract_with_newspaper / _readability / _selenium: the text when it has at
\* least MIN_TEXT_LENGTH characters, "" otherwise and on any exception.
\* raw is the length of the stripped text, -1 when the tier raised (or, in
\* tier 2, the status code was not 200).
TierOutput(raw) == IF raw >= MIN_TEXT_LENGTH THEN raw ELSE 0

TierOutcomes == RawLens \cup {-1}

\* The sessions a tier may leave open. Only extract_with_selenium opens one
\* (163); it quits it on line 167, which an exception of driver.get (164) or
\* driver.page_source (166) skips, while an exception of webdriver.Chrome or
\* of the parsing after line 167 leaves none.
TierLeaves(t, raw) == IF t = 3 /\ raw = -1 THEN {0, 1} ELSE {0}

\* Mutant: every tier runs, whatever the tiers before it returned.
AfterTierAll(t, out) ==
    IF t = 1 THEN "tier2" ELSE IF t = 2 THEN "tier3" ELSE "extracted"

\* extract_main_text: where control goes after tier t returned out
\* ("extracted": extract_main_text returns).
AfterTier(t, out) ==
    IF out # 0 THEN "extracted"
    ELSE IF t = 1 THEN "tier2"
    ELSE IF t = 2 THEN "tier3"
    ELSE "extracted"

Tier(t) ==
    /\ pc = "tier" \o ToString(t)
    /\ did' = did \cup {"extract"}
    /\ \E raw \in TierOutcomes :
          /\ tierLog' = Append(tierLog, <<t, raw>>)
          /\ \E left \in TierLeaves(t, raw) : shortLived' = shortLived + left
          /\ text' = TierOutput(raw)
          /\ pc' = AfterTier(t, TierOutput(raw))
    /\ UNCHANGED <<cur, probeRet, probeLog, writeLog, result, incidents, idx, verdict>>
    /\ UNCHANGED <<batchVars, storeVars, fetchVars, gvVars, nameVars>>

Tier1 == Tier(1)
Tier2 == Tier(2)
Tier3 == Tier(3)

\* Mutant: the chat session is built whatever was extracted.
AfterExtractIgnored(txt) == "build_session"

\* process_url, line 588: "if not text", the negative record is persisted
\* and process_url returns; otherwise the chat session is built.
AfterExtract(txt) == IF txt = 0 THEN "persist_negative" ELSE "build_session"

\* process_url, lines 587-599.
Extracted ==
    /\ pc = "extracted"
    /\ pc' = AfterExtract(text)
    /\ tierLog' = <<>>
    /\ UNCHANGED <<batchVars, storeVars, puVars, fetchVars, browserVars, gvVars, nameVars>>

\* ------------------------------------------- session and incident verification
StartQuery(key) ==
    /\ gvKey' = key
    /\ gvAttempt' = 0
    /\ gvLog' = <<>>
    /\ gvDelays' = <<>>
    /\ gvResp' = NoResponse

\* process_url, lines 610-623: build the index and the chat engine, then call
\* verify_incident, which sends the incident prompt. An exception while
\* building is caught at line 633.
BuildSession ==
    /\ pc = "build_session"
    /\ \/ /\ did' = did \cup {"session"}
          /\ StartQuery("incident_prompt")
          /\ pc' = "gv_chat"
       \/ /\ pc' = "pu_sleep"
          /\ UNCHANGED <<did, gvVars>>
    /\ UNCHANGED <<cur, probeRet, probeLog, writeLog, text, result, incidents, idx, verdict>>
    /\ UNCHANGED <<batchVars, storeVars, fetchVars, tierVars, browserVars, nameVars>>

\* get_validated_response: one pass of the for loop per step.
\* "ok": the reply validated; "json_error": json.JSONDecodeError;
\* "request_error": requests.exceptions.RequestException;
\* "rate_limit": an exception whose text has "429 Too Many Requests";
\* "invalid": any other exception (a reply that fails validation).
GvKinds == {"ok", "json_error", "request_error", "rate_limit", "invalid"}

\* The except branches that do not return: the loop goes on.
GvRetries(kind) == kind \in {"request_error", "rate_limit"}

\* Mutant: no backoff, the same delay after every rate limit.
GvDelayFixed(attempt) == GvBaseDelay

GvDelay(attempt) == GvBaseDelay * 2 ^ attempt

GvChat ==
    /\ pc = "gv_chat"
    /\ did' = did \cup {gvKey}
    /\ \E kind \in GvKinds :
       \E reply \in IF kind = "ok" THEN Replies(gvKey, NameCap - named) ELSE {NoResponse} :
          /\ GvRetries(kind) => gvAttempt < TransientCap
          /\ gvLog' = Append(gvLog, kind)
          /\ gvDelays' = IF kind = "rate_limit"
                         THEN Append(gvDelays, GvDelay(gvAttempt)) ELSE gvDelays
          /\ IF GvRetries(kind) /\ gvAttempt + 1 < GvMaxRetries
             THEN /\ gvAttempt' = gvAttempt + 1
                  /\ pc' = "gv_chat"
                  /\ UNCHANGED gvResp
             ELSE /\ gvResp' = reply
                  /\ pc' = "gv_return"
                  /\ UNCHANGED gvAttempt
    /\ UNCHANGED gvKey
    /\ UNCHANGED <<cur, probeRet, probeLog, writeLog, text, result, incidents, idx, verdict>>
    /\ UNCHANGED <<batchVars, storeVars, fetchVars, tierVars, browserVars, nameVars>>

ClearQuery ==
    /\ gvAttempt' = 0
    /\ gvLog' = <<>>
    /\ gvDelays' = <<>>
    /\ gvResp' = NoResponse
    /\ UNCHANGED gvKey

\* verify_incident, lines 347-366, and process_url, line 624.
Positive(txt, n) == [content |-> txt, actual_incident |-> n, accessible |-> 1]

VerifyIncidentReturn ==
    /\ pc = "gv_return"
    /\ gvKey = "incident_prompt"
    /\ LET answer == IF gvResp.none THEN "none" ELSE Lower(gvResp.answer) IN
       /\ verdict' = answer
       /\ \/ /\ answer = "no"
             /\ UpdateFieldOk(cur, 0)
             /\ result' = Positive(text, 0)
             /\ incidents' = <<>>
          \/ /\ answer = "yes"
             /\ UpdateFieldOk(cur, 1)
             /\ result' = Positive(text, 1)
             /\ incidents' = OrEmpty(gvResp.evidence)
          \/ /\ answer \in {"no", "yes"}
             /\ StoreCallRaises("update_field")
             /\ result' = Positive(text, -2)
             /\ incidents' = <<>>
          \/ /\ answer \notin {"no", "yes"}
             /\ result' = Positive(text, -2)
             /\ incidents' = <<>>
             /\ UNCHANGED <<storeVars, writeLog>>
    /\ ClearQuery
    /\ pc' = "pu_insert_url"
    /\ UNCHANGED <<cur, probeRet, probeLog, did, text, idx>>
    /\ UNCHANGED <<batchVars, fetchVars, tierVars, browserVars, nameVars>>

\* Mutant: only a "no" stops the entity extraction.
IncidentNotDenied(res) == res.actual_incident # 0

\* process_url, line 627.
IncidentConfirmed(res) == res.actual_incident = 1

\* Mutant: an insert_url that raises is logged and process_url carries on.
PuInsertUrlErrorIgnored ==
    /\ pc = "pu_insert_url"
    /\ \/ InsertUrlOk(cur, result)
       \/ InsertUrlRaises(cur)
    /\ pc' = IF IncidentConfirmed(result) THEN "pu_incidents" ELSE "pu_sleep"
    /\ idx' = 1
    /\ UNCHANGED <<cur, probeRet, probeLog, did, text, result, incidents, verdict>>
    /\ UNCHANGED <<batchVars, fetchVars, tierVars, browserVars, gvVars, nameVars>>

\* process_url, lines 625-627.
PuInsertUrl ==
    /\ pc = "pu_insert_url"
    /\ \/ /\ InsertUrlOk(cur, result)
          /\ pc' = IF IncidentConfirmed(result) THEN "pu_incidents" ELSE "pu_sleep"
          /\ idx' = 1
       \/ /\ InsertUrlRaises(cur)
          /\ pc' = "pu_sleep"
          /\ UNCHANGED idx
    /\ UNCHANGED <<cur, probeRet, probeLog, did, text, result, incidents, verdict>>
    /\ UNCHANGED <<batchVars, fetchVars, tierVars, browserVars, gvVars, nameVars>>

\* process_url, lines 628-630: one incident per step; DatabaseError is caught
\* at line 633.
PuInsertIncident ==
    /\ pc = "pu_incidents"
    /\ idx <= Len(incidents)
    /\ \/ /\ InsertRowOk("incident", [url |-> GetUrlId(cur), text |-> incidents[idx]])
          /\ idx' = idx + 1
          /\ pc' = "pu_incidents"
       \/ /\ StoreCallRaises("insert_incident")
          /\ pc' = "pu_sleep"
          /\ UNCHANGED idx
    /\ UNCHANGED <<cur, probeRet, probeLog, did, text, result, incidents, verdict>>
    /\ UNCHANGED <<batchVars, fetchVars, tierVars, browserVars, gvVars, nameVars>>

\* process_url, line 636.
PuSleep ==
    /\ pc = "pu_sleep"
    /\ pc' = "pu_return"
    /\ UNCHANGED <<batchVars, storeVars, puVars, fetchVars, tierVars, browserVars, gvVars, nameVars>>

\* ------------------------------------------------- suspects, victims, forms
StartUpload(r) ==
    /\ role' = r
    /\ names' = <<>>
    /\ paces' = 0
    /\ idx' = 0
    /\ StartQuery(r \o "_prompt")
    /\ pc' = "gv_chat"
    /\ UNCHANGED <<passed, formData, formJson, named>>

\* process_url, line 631: upload_suspects sends the suspect prompt.
UploadSuspectsCall ==
    /\ pc = "pu_incidents"
    /\ idx > Len(incidents)
    /\ StartUpload("suspect")
    /\ UNCHANGED <<cur, probeRet, probeLog, did, writeLog, text, result, incidents, verdict>>
    /\ UNCHANGED <<batchVars, storeVars, fetchVars, tierVars, browserVars>>

\* process_url, line 632: upload_victims sends the victim prompt.
UploadVictimsCall ==
    /\ pc = "upload_victims"
    /\ StartUpload("victim")
    /\ UNCHANGED <<cur, probeRet, probeLog, did, writeLog, text, result, incidents, verdict>>
    /\ UNCHANGED <<batchVars, storeVars, fetchVars, tierVars, browserVars>>

\* Where control goes when upload_suspects / upload_victims returns.
AfterUpload(r) == IF r = "suspect" THEN "upload_victims" ELSE "pu_sleep"

\* upload_suspects, lines 395-402; upload_victims, lines 429-436.
UploadReturn ==
    /\ pc = "gv_return"
    /\ gvKey \in {"suspect_prompt", "victim_prompt"}
    /\ IF ~gvResp.none /\ Lower(gvResp.answer) = "yes"
       THEN names' = OrEmpty(gvResp.evidence)
       ELSE names' = <<>>
    /\ idx' = 1
    /\ pc' = IF names' # <<>> THEN "confirm" ELSE AfterUpload(role)
    /\ ClearQuery
    /\ named' = named + Len(OrEmpty(gvResp.evidence))
    /\ UNCHANGED <<role, passed, paces, formData, formJson>>
    /\ UNCHANGED <<cur, probeRet, probeLog, did, writeLog, text, result, incidents, verdict>>
    /\ UNCHANGED <<batchVars, storeVars, fetchVars, tierVars, browserVars>>

\* time.sleep(random.uniform(1, 3)) closes the body of the suspect loop
\* (line 416); the victim loop has no such statement.
Paced(r) == r = "suspect"

\* The end of one pass of the for loop over the candidates: with candidate i
\* of n done, the loop goes on to the next one or the upload returns.
AfterCandidate(i, n, r) == IF i + 1 <= n THEN "confirm" ELSE AfterUpload(r)

NextCandidateVia(target) ==
    /\ paces' = IF Paced(role) THEN paces + 1 ELSE paces
    /\ idx' = idx + 1
    /\ pc' = target

NextCandidate == NextCandidateVia(AfterCandidate(idx, Len(names), role))

\* Mutant: a failure of the detail form ends the upload.
FormFailureEndsUpload(i, n, r) == AfterUpload(r)

\* populate_suspect_forms_table, lines 546-547 (494-495 for victims): every
\* exception of the form query, its parsing and the form insert is logged
\* there, the call returns and the loop of the upload goes on.
AfterFormFailure(i, n, r) == AfterCandidate(i, n, r)

\* confirm_natural_name: True iff the reply validates and answers yes.
ConfirmOutcomes == {"yes", "Yes", "no", "unparseable", "raise"}

ConfirmNaturalName(outcome) == Lower(outcome) = "yes"

\* Mutant: the test of the confirmation is inverted.
PersistsRejected(confirmed) == ~confirmed

\* Mutant: a candidate is persisted whatever confirm_natural_name returned.
PersistsAnyCandidate(confirmed) == TRUE

\* upload_suspects, line 404; upload_victims, line 438:
\* `if confirm_natural_name(suspect):` guards the insert and the form.
PersistsCandidate(confirmed) == confirmed

\* Mutant: populate_*_forms_table is called outside the `if`, for every
\* candidate.
ConfirmThenFormAlways ==
    /\ pc = "confirm"
    /\ did' = did \cup {"confirm"}
    /\ \E outcome \in ConfirmOutcomes :
          /\ passed' = IF ConfirmNaturalName(outcome)
                        THEN passed \cup {<<role, idx>>} ELSE passed
          /\ pc' = IF ConfirmNaturalName(outcome) THEN "insert_person" ELSE "form_chat"
    /\ UNCHANGED <<idx, paces, role, names, formData, formJson, named>>
    /\ UNCHANGED <<cur, probeRet, probeLog, writeLog, text, result, incidents, verdict>>
    /\ UNCHANGED <<batchVars, storeVars, fetchVars, tierVars, browserVars, gvVars>>

Confirm ==
    /\ pc = "confirm"
    /\ did' = did \cup {"confirm"}
    /\ \E outcome \in ConfirmOutcomes :
          /\ passed' = IF ConfirmNaturalName(outcome)
                        THEN passed \cup {<<role, idx>>} ELSE passed
          /\ IF PersistsCandidate(ConfirmNaturalName(outcome))
             THEN /\ pc' = "insert_person"
                  /\ UNCHANGED <<idx, paces>>
             ELSE NextCandidate
    /\ UNCHANGED <<role, names, formData, formJson, named>>
    /\ UNCHANGED <<cur, probeRet, probeLog, writeLog, text, result, incidents, verdict>>
    /\ UNCHANGED <<batchVars, storeVars, fetchVars, tierVars, browserVars, gvVars>>

\* upload_suspects, lines 405-411; upload_victims, lines 439-445: the
\* DatabaseError of the insert is logged and the form is populated anyway.
InsertPerson ==
    /\ pc = "insert_person"
    /\ \/ InsertRowOk(role, [url |-> GetUrlId(cur), name |-> names[idx]])
       \/ StoreCallRaises("insert_" \o role)
    /\ pc' = "form_chat"
    /\ UNCHANGED <<cur, probeRet, probeLog, did, text, result, incidents, idx, verdict>>
    /\ UNCHANGED <<batchVars, fetchVars, tierVars, browserVars, gvVars, nameVars>>

\* SuspectFormResponse / VictimFormResponse .model_validate: every field is
\* optional; a field that is absent or null is None.
ValidateForm(reply, name) ==
    [name |-> name,
     age  |-> IF reply.age \in {"null", "absent"} THEN "NULL" ELSE reply.age]

\* populate_suspect_forms_table, lines 533-537; populate_victim_forms_table,
\* lines 481-485: one chat call, no retry; every exception is caught.
FormChat ==
    /\ pc = "form_chat"
    /\ did' = did \cup {role \o "_form"}
    /\ \/ \E reply \in FormReplies :
             /\ formJson' = reply
             /\ formData' = ValidateForm(reply, names[idx])
             /\ pc' = "form_insert"
             /\ UNCHANGED <<idx, paces>>
       \/ \E failure \in {"chat_raises", "bad_json", "invalid"} :
             /\ NextCandidateVia(AfterFormFailure(idx, Len(names), role))
             /\ UNCHANGED <<formData, formJson>>
    /\ UNCHANGED <<role, names, passed, named>>
    /\ UNCHANGED <<cur, probeRet, probeLog, writeLog, text, result, incidents, verdict>>
    /\ UNCHANGED <<batchVars, storeVars, fetchVars, tierVars, browserVars, gvVars>>

\* Mutant: a field without a value is stored as the empty string.
FormArgumentDefaulted(data) == [data EXCEPT !.age = IF @ = "NULL" THEN "" ELSE @]

\* populate_suspect_forms_table, line 544; populate_victim_forms_table, line
\* 492: response_data is handed to the form insert as it was validated.
FormArgument(data) == data

\* populate_suspect_forms_table, lines 538-545; populate_victim_forms_table,
\* lines 486-493.
FormInsert ==
    /\ pc = "form_insert"
    /\ LET url_id == GetUrlId(cur)
           person_id == GetPersonId(role, url_id, names[idx])
       IN \/ /\ url_id = 0
             /\ UNCHANGED <<storeVars, writeLog>>
             /\ NextCandidate
          \/ /\ url_id # 0
             /\ InsertRowOk(role \o "_form",
                            [url |-> url_id, person |-> person_id,
                             name |-> FormArgument(formData).name,
                             age |-> FormArgument(formData).age])
             /\ NextCandidate
          \/ /\ url_id # 0
             /\ StoreCallRaises("insert_" \o role \o "_form")
             /\ NextCandidateVia(AfterFormFailure(idx, Len(names), role))
    /\ formData' = NoForm
    /\ formJson' = NoJson
    /\ UNCHANGED <<role, names, passed, named>>
    /\ UNCHANGED <<cur, probeRet, probeLog, did, text, result, incidents, verdict>>
    /\ UNCHANGED <<batchVars, fetchVars, tierVars, browserVars, gvVars>>

Next ==
    \/ MainStart
    \/ InitializeSelenium
    \/ MainLoopNext
    \/ MainQuit
    \/ RunAgain
    \/ Probe
    \/ FetchAttempt
    \/ FetchReturn
    \/ Tier1
    \/ Tier2
    \/ Tier3
    \/ Extracted
    \/ PersistNegative
    \/ BuildSession
    \/ GvChat
    \/ VerifyIncidentReturn
    \/ PuInsertUrl
    \/ PuInsertIncident
    \/ PuSleep
    \/ UploadSuspectsCall
    \/ UploadVictimsCall
    \/ UploadReturn
    \/ Confirm
    \/ InsertPerson
    \/ FormChat
    \/ FormInsert

Spec == Init /\ [][Next]_vars

\* ------------------------------------------------------------------ claims
ChildTables == {"incident", "suspect", "victim"}

\* The Incident, Suspect and Victim rows of URL u.
ChildRows(u) ==
    {tr \in UNION {{<<t, i>> : i \in DOMAIN tables[t]} : t \in ChildTables} :
        tables[tr[1]][tr[2]].url = u}

EntityCalls == {"suspect_prompt", "victim_prompt", "confirm", "suspect_form", "victim_form"}
ModelCalls == EntityCalls \cup {"session", "incident_prompt"}

\* C1: when process_url returns, the store holds exactly one UrlRecord for its
\* URL, at whatever stage the processing stopped (stated here for the runs in
\* which no store call failed).
C1_ExactlyOneRecord ==
    (pc = "pu_return" /\ dbFaults = 0) => Len(urlRows[cur]) = 1

\* C2: after a run of main that went through its whole loop, a second run over
\* the same candidates and store invokes process_url for no URL and the store
\* holds no duplicate UrlRecord (stated for the runs in which no store call
\* failed).
C2_SecondRunIdle ==
    (run > 1 /\ (run - 1) \in finished /\ dbFaults = 0)
        => \A u \in URLS : invoked[u] = 0 /\ Len(urlRows[u]) <= 1

\* C3: within one run of main, process_url is invoked at most once per URL,
\* only for candidate URLs, and never for a URL that was in the store when the
\* run started.
C3_NoReprocessing ==
    \A u \in URLS :
        /\ invoked[u] <= 1
        /\ invoked[u] = 1 => (u \in ToSet(candidates) /\ u \notin startUrls)

C3_Witness ==
    /\ pc = "main_done"
    /\ \E i, j, k \in DOMAIN candidates :
          /\ i # j /\ candidates[i] = candidates[j] /\ invoked[candidates[i]] = 1
          /\ candidates[k] \in startUrls

\* C4: when the probe returns false, process_url makes no other external call
\* (no load, no extraction, no language-model call), the URL has no Incident,
\* Suspect or Victim row, and the record it persists before returning is
\* accessible=0, actual_incident=-1, content="".
C4_NegativeShortCircuit ==
    probeRet = "False" =>
        /\ did = {"probe"}
        /\ ChildRows(cur) = {}
        /\ pc = "pu_return" =>
              /\ urlRows[cur] = <<[content |-> 0, actual_incident |-> -1, accessible |-> 0]>>
              /\ writeLog = <<"insert_url">>

C4_Witness ==
    /\ probeRet = "False"
    /\ pc = "pu_return"
    /\ Len(urlRows[cur]) = 1

\* C5: when fetch_url_with_retries returns False, process_url calls neither
\* extract_main_text nor the language model, and the record it persists before
\* returning has accessible=0.
C5_LoadFailureStops ==
    fetchRet = "False" =>
        /\ did \subseteq {"probe", "load"}
        /\ pc = "pu_return" =>
              /\ Len(urlRows[cur]) = 1
              /\ urlRows[cur][1].accessible = 0

C5_Witness ==
    /\ fetchRet = "False"
    /\ pc = "pu_return"
    /\ Len(urlRows[cur]) = 1

\* C6: fetch_url_with_retries makes at most 3 attempts; only an attempt that
\* timed out is followed by another one (a fatal fault or a loaded page never
\* is), a timeout is the last attempt only when it is the third, and the
\* function returns True iff an attempt loaded the page.
C6_LoadRetries ==
    /\ Len(fetchLog) <= FetchMaxRetries
    /\ \A i \in 1..(Len(fetchLog) - 1) : fetchLog[i] = "timeout"
    /\ Len(slept) = Cardinality({i \in DOMAIN fetchLog : fetchLog[i] = "timeout"})
    /\ pc = "fetch" => Len(fetchLog) < FetchMaxRetries
    /\ pc = "fetch_return" =>
          /\ Len(fetchLog) >= 1
          /\ fetchLog[Len(fetchLog)] = "timeout" => Len(fetchLog) = FetchMaxRetries
          /\ fetchRet = "True" <=> \E i \in DOMAIN fetchLog : fetchLog[i] = "loaded"
          /\ fetchRet \in {"True", "False"}

C6_Witness ==
    /\ pc = "fetch_return"
    /\ fetchLog = <<"timeout", "fatal">>
    /\ fetchRet = "False"

\* C7: extract_main_text calls the tiers in the order 1, 2, 3, calls a tier
\* only when every tier before it gave less than 100 characters, and returns
\* the text of the first tier that gave at least 100 characters, or "" when
\* none did.
C7_FallbackOrder ==
    /\ Len(tierLog) <= 3
    /\ \A i \in DOMAIN tierLog : tierLog[i][1] = i
    /\ \A i \in 1..(Len(tierLog) - 1) : tierLog[i][2] < MIN_TEXT_LENGTH
    /\ pc = "extracted" =>
          /\ Len(tierLog) >= 1
          /\ LET last == tierLog[Len(tierLog)][2] IN
             IF last >= MIN_TEXT_LENGTH
             THEN text = last
             ELSE text = 0 /\ Len(tierLog) = 3

C7_Witness ==
    /\ pc = "extracted"
    /\ tierLog = <<<<1, MIN_TEXT_LENGTH - 1>>, <<2, MIN_TEXT_LENGTH>>>>
    /\ text = MIN_TEXT_LENGTH

AllRateLimited == \A i \in DOMAIN gvLog : gvLog[i] = "rate_limit"

\* C8: a get_validated_response call whose every attempt hit the rate limit
\* made exactly 5 attempts, slept base * 2^attempt after each of them, a
\* strictly increasing sequence of delays, and returns None.
C8_RetryCap ==
    (pc = "gv_return" /\ AllRateLimited) =>
        /\ Len(gvLog) = 5
        /\ gvResp.none
        /\ gvDelays = [i \in 1..5 |-> GvBaseDelay * 2 ^ (i - 1)]
        /\ \A i \in 1..(Len(gvDelays) - 1) : gvDelays[i] < gvDelays[i + 1]

C8_Witness ==
    /\ pc = "gv_return"
    /\ gvLog = [i \in 1..5 |-> "rate_limit"]
    /\ gvResp.none

\* C9: in get_validated_response only an attempt that hit the rate limit is
\* followed by another attempt; after any other failed attempt the call
\* returns None at once.
C9_OnlyRateLimitRetried ==
    /\ \A i \in 1..(Len(gvLog) - 1) : gvLog[i] = "rate_limit"
    /\ (pc = "gv_return" /\ gvLog[Len(gvLog)] # "ok") => gvResp.none

\* C10: for a URL whose incident verification did not answer yes, no suspect or
\* victim query, confirmation or detail-form query is issued and no Incident,
\* Suspect or Victim row is written.
C10_NoEntitiesWithoutIncident ==
    /\ (cur # 0 /\ verdict # "yes") =>
          /\ did \cap EntityCalls = {}
          /\ ChildRows(cur) = {}
    /\ \A u \in URLS :
          (Len(urlRows[u]) > 0 /\ urlRows[u][1].actual_incident # 1)
              => ChildRows(u) = {}

C10_Witness ==
    /\ pc = "pu_return"
    /\ verdict \in {"no", "none", "maybe"}
    /\ Len(urlRows[cur]) = 1
    /\ "incident_prompt" \in did

\* The actual_incident value that stands for an answer of the model.
OutcomeOf(answer) == IF answer = "no" THEN 0 ELSE IF answer = "yes" THEN 1 ELSE -2

\* C11: once verify_incident has returned, the UrlRecord persisted for the URL
\* carries the outcome of the verification: 0 for the answer no, 1 for yes,
\* -2 for no reply or any other answer; in particular it is not -1.
C11_OutcomeRecorded ==
    (cur # 0 /\ verdict # "" /\ Len(urlRows[cur]) = 1)
        => urlRows[cur][1].actual_incident = OutcomeOf(verdict)

PersonTables == {"suspect", "victim"}

\* The rows of table t that belong to URL u.
RowsOf(t, u) == {i \in DOMAIN tables[t] : tables[t][i].url = u}

\* The candidates of role r that confirm_natural_name accepted.
PassedOf(r) == {p \in passed : p[1] = r}

\* C12: a person insert, a detail-form query and a form insert are only ever
\* issued for a candidate that passed confirm_natural_name, every persisted
\* Suspect / Victim name of the running upload is the name of such a candidate,
\* and the URL has no more Suspect / Victim / Form rows than candidates passed.
C12_EntityGating ==
    /\ pc \in {"insert_person", "form_chat", "form_insert"} => <<role, idx>> \in passed
    /\ cur # 0 =>
          /\ \A r \in PersonTables :
                /\ Cardinality(RowsOf(r, cur)) <= Cardinality(PassedOf(r))
                /\ Cardinality(RowsOf(r \o "_form", cur)) <= Cardinality(PassedOf(r))
          /\ role \in PersonTables =>
                \A i \in RowsOf(role, cur) :
                    \E j \in DOMAIN names :
                        <<role, j>> \in passed /\ names[j] = tables[role][i].name

C12_Witness ==
    /\ pc = "upload_victims"
    /\ Len(names) = 2
    /\ passed = {<<"suspect", 2>>}
    /\ Len(tables["suspect"]) = 1
    /\ Len(tables["suspect_form"]) = 1

C14_InsertUrlFirst ==
    \A i \in DOMAIN writeLog :
        writeLog[i] # "insert_url" => \E j \in 1..(i - 1) : writeLog[j] = "insert_url"

PersonWrites == {"insert_suspect", "insert_victim"}
FormWrites == {"insert_suspect_form", "insert_victim_form"}

C16_ChildRowsOwned ==
    \A t \in ChildTables :
        \A i \in DOMAIN tables[t] :
            LET u == tables[t][i].url IN
            /\ u \in URLS
            /\ Len(urlRows[u]) = 1
            /\ urlRows[u][1].actual_incident = 1

C16_Witness ==
    /\ pc = "crashed"
    /\ \E u \in URLS : ChildRows(u) # {}

\* The form rows that refer to row i of the Suspect / Victim table r.
FormsOf(r, i) == {j \in DOMAIN tables[r \o "_form"] : tables[r \o "_form"][j].person = i}

UploadPcs == {"confirm", "insert_person", "form_chat", "form_insert"}

\* C18: whatever happens to the detail form of a confirmed person (the form
\* query raises, its reply does not parse or validate, the form insert raises),
\* the loop goes on with the next candidate, which is confirmed in turn, or,
\* after the last candidate, the upload returns normally; a candidate that is
\* confirmed is inserted and its form is attempted; after upload_suspects
\* upload_victims runs.
C18_SiblingsIndependent ==
    /\ [][(pc \in {"form_chat", "form_insert"} /\ pc' # "form_insert")
            => /\ idx' = idx + 1
               /\ role' = role /\ names' = names
               /\ pc' = IF idx < Len(names) THEN "confirm"
                        ELSE IF role = "suspect" THEN "upload_victims" ELSE "pu_sleep"]_vars
    /\ [][(pc = "confirm" /\ <<role, idx>> \in passed') => pc' = "insert_person"]_vars
    /\ [][pc = "insert_person" => (pc' = "form_chat" /\ idx' = idx)]_vars
    /\ [](pc \in UploadPcs => idx \in DOMAIN names)
    /\ []((pc = "upload_victims" \/ (pc = "pu_sleep" /\ role = "victim"))
            => idx = Len(names) + 1)
    /\ []((pc = "pu_return" /\ "suspect_prompt" \in did) => "victim_prompt" \in did)

C18_Witness ==
    /\ pc = "confirm"
    /\ role = "suspect"
    /\ idx = 2
    /\ <<"suspect", 1>> \in passed
    /\ Cardinality(RowsOf("suspect", cur)) = 1
    /\ RowsOf("suspect_form", cur) = {}

FormTables == {"suspect_form", "victim_form"}

\* The value a field of the reply stands for: "NULL" (no value) when the reply
\* omits the field or gives it as null, the value itself otherwise.
FieldOf(json) == IF json.age \in {"null", "absent"} THEN "NULL" ELSE json.age

NewThisRun == ToSet(candidates) \ startUrls

\* C20: as long as no store call failed, no failure of another external call
\* (probe, page load, extraction tier, session construction, language-model
\* call) makes main stop with URLs left to process, and when main is done with
\* the loop process_url was invoked for every URL it had to process.
C20_BatchContinues ==
    dbFaults = 0 =>
        /\ ~(pc = "crashed" /\ todo # {})
        /\ (pc = "main_done" /\ driver = "quit") => \A u \in NewThisRun : invoked[u] = 1

\* C21: when main has ended, normally or by an exception that escaped
\* process_url, the shared browser session is not left open: if it was
\* initialized, driver.quit() was called.
C21_DriverReleased ==
    pc \in {"main_done", "crashed"} => driver # "open"

\* C22: when initialize_selenium fails, main returns at once: process_url is
\* invoked for no URL, and while no shared session exists no row of any
\* table is written.
C22_NoSessionNoWork ==
    /\ [](driver = "none" /\ pc \notin {"main", "init_selenium"} =>
            /\ pc = "main_done"
            /\ \A u \in URLS : invoked[u] = 0
            /\ StoredUrls = startUrls)
    /\ [][driver = "none" => UNCHANGED storeVars]_vars

\* initialize_selenium failed although there were URLs to process.
C22_Witness ==
    pc = "main_done" /\ driver = "none" /\ todo # {}

\* C23: process_url probes its URL exactly once: no probe before the call of
\* is_url_accessible, one after it, never a second one. The probe never
\* raises: whatever it meets, control stays in process_url, and every outcome
\* but a page with a title (an exception of any call included) is the answer
\* "not accessible", after which the negative record is persisted.
C23_ProbedOnce ==
    /\ [](cur # 0 => Len(probeLog) = IF pc = "probe" THEN 0 ELSE 1)
    /\ [](probeLog # <<>> =>
            probeRet = IF probeLog[1] = "title" THEN "True" ELSE "False")
    /\ [][pc = "probe" =>
            /\ pc' \in {"fetch", "persist_negative"}
            /\ probeLog'[1] # "title" => pc' = "persist_negative"]_vars

\* The probe met an exception and the URL was recorded as not accessible.
C23_Witness ==
    /\ probeLog \in {<<"raised">>, <<"no_session">>}
    /\ pc = "pu_return"
    /\ urlRows[cur] = <<NegativeRecord>>

\* C24: the chat session is built and the model queried only for a text that
\* extract_main_text returned non-empty; for the empty string process_url
\* goes on to persist the negative record, and when it returns, that record
\* (content "") is the one store write and no query was sent.
C24_NoTextNoQuery ==
    /\ [](pc = "build_session" \/ did \cap ModelCalls # {} =>
            "extract" \in did /\ text >= MIN_TEXT_LENGTH)
    /\ [][pc = "extracted" /\ text = 0 => pc' = "persist_negative"]_vars
    /\ []("extract" \in did /\ text = 0 /\ pc = "pu_return" =>
            /\ urlRows[cur] = <<NegativeRecord>>
            /\ writeLog = <<"insert_url">>
            /\ did \cap ModelCalls = {})

\* All three tiers returned the empty string for a URL that was loaded.
C24_Witness ==
    /\ "extract" \in did /\ text = 0 /\ pc = "pu_return"
    /\ fetchRet = "True"
    /\ urlRows[cur] = <<NegativeRecord>>

\* C25: in the loop over the suspect names and in the loop over the victim
\* names, a pacing delay follows every candidate, confirmed or not, before
\* the next candidate is taken up: when candidate idx is about to be
\* confirmed, idx - 1 delays were taken in this loop.
C25_PacedEveryCandidate ==
    role \in PersonTables /\ pc = "confirm" => paces = idx - 1

\* The program is sequential: whenever it has a next step, it takes it.
\* Starting the job again is the operator's choice and is not forced.
ProgramStep == Next /\ pc' # "main"

FairSpec == Spec /\ WF_vars(ProgramStep)

\* Every call of process_url ends, by a return or by an exception that
\* escapes it, and every run of main ends: all loops are bounded.
ProcessUrlEnds ==
    /\ (pc = "probe") ~> (pc \in {"pu_return", "crashed"})
    /\ (pc = "main") ~> (pc \in {"main_done", "crashed"})

\* C26: every external call returning or raising, each call of process_url
\* eventually returns, and each run of main eventually finishes its batch.
C26_Terminates ==
    /\ (pc = "probe") ~> (pc = "pu_return")
    /\ (pc = "main") ~> (pc = "main_done")

\* C27: when is_url_accessible or extract_with_selenium has returned, the
\* browser session it opened is closed, also when navigation or the
\* retrieval of the page raised: no short-lived session is left open.
C27_ShortLivedClosed ==
    shortLived = 0

====
